---- MODULE Spec2Model ----
(***************************************************************************)
(* Model of the security module of n01d-machine's cross-platform release   *)
(* (src-tauri/src/security.rs and the security commands of                 *)
(* src-tauri/src/main.rs): the profile model, the compilers that turn a    *)
(* profile into QEMU arguments and iptables commands, and the two          *)
(* persisted catalogs (config.json and security_profiles.json).            *)
(*                                                                         *)
(* Strings are TLA+ strings, so format!() is concatenation and             *)
(* starts_with / ends_with / contains are computed on the characters.      *)
(* Option<T> is a sequence of length 0 (None) or 1 (Some).                 *)
(***************************************************************************)
EXTENDS Integers, Sequences, FiniteSets, TLC

VARIABLES
    cin,          \* compiler input: the profile and the interface handed to a compiler
    cout,         \* compiler output: what the last compiler call returned
    configFile,   \* config.json on disk
    profilesFile, \* security_profiles.json on disk
    manager,      \* the SecurityManager object (profiles, tor_config)
    last,         \* the last command run and what it returned
    inflight      \* per running instance of the application: the command it is in

vars == <<cin, cout, configFile, profilesFile, manager, last, inflight>>
storeVars == <<configFile, profilesFile, manager, last, inflight>>

(***************************************************************************)
(* Option and string helpers                                               *)
(***************************************************************************)
None == <<>>
Some(x) == <<x>>
is_some(o) == Len(o) = 1
unwrap(o) == o[1]
unwrap_or(o, d) == IF is_some(o) THEN o[1] ELSE d

starts_with(s, p) == Len(s) >= Len(p) /\ SubSeq(s, 1, Len(p)) = p
ends_with(s, p) == Len(s) >= Len(p) /\ SubSeq(s, Len(s) - Len(p) + 1, Len(s)) = p
contains(s, p) == \E i \in 1..(Len(s) - Len(p) + 1) : SubSeq(s, i, i + Len(p) - 1) = p

(***************************************************************************)
(* Profile model                                                           *)
(***************************************************************************)
IsolationMode == {"None", "Full", "HostOnly", "Internal", "Filtered", "TorOnly", "VpnOnly"}
FirewallAction == {"Allow", "Deny", "Drop", "Log"}
TrafficDirection == {"Inbound", "Outbound", "Both"}

FirewallRule(action, direction, protocol, source, destination, port, port_range, description) ==
    [action |-> action, direction |-> direction, protocol |-> protocol,
     source |-> source, destination |-> destination, port |-> port,
     port_range |-> port_range, description |-> description]

VirtualDevice(device_type, name, enabled, passthrough, isolated) ==
    [device_type |-> device_type, name |-> name, enabled |-> enabled,
     passthrough |-> passthrough, isolated |-> isolated]

NetworkIsolation(mode, allow_host_access, allow_internet, isolated_network_id, mac_address) ==
    [mode |-> mode, allow_host_access |-> allow_host_access,
     allow_internet |-> allow_internet,
     isolated_network_id |-> isolated_network_id, mac_address |-> mac_address]

\* #[derive(Default)] for NetworkIsolation
NetworkIsolation_default == NetworkIsolation("None", FALSE, FALSE, None, None)

SecurityProfile(name, sandbox, isolation_, tor, vpn, proxy, rules, devices) ==
    [name |-> name, sandbox_enabled |-> sandbox, network_isolation |-> isolation_,
     tor_enabled |-> tor, vpn_config |-> vpn, proxy_config |-> proxy,
     firewall_rules |-> rules, virtual_devices |-> devices]

TorConfig_default ==
    [socks_port |-> 9050, control_port |-> 9051, dns_port |-> 5353,
     transparent_proxy |-> TRUE, bridge_enabled |-> FALSE, bridges |-> <<>>,
     exit_nodes |-> None, exclude_exit_nodes |-> None, strict_nodes |-> FALSE,
     new_circuit_period |-> 30]

\* faulty variant: the HTTP rule declared before the HTTPS rule
default_firewall_rules_http_first ==
    << FirewallRule("Allow", "Outbound", Some("tcp"), None, None, Some(80), None, "Allow HTTP"),
       FirewallRule("Allow", "Outbound", Some("tcp"), None, None, Some(443), None, "Allow HTTPS"),
       FirewallRule("Allow", "Outbound", Some("udp"), None, None, Some(53), None, "Allow DNS") >>

default_firewall_rules ==
    << FirewallRule("Allow", "Outbound", Some("tcp"), None, None, Some(443), None, "Allow HTTPS"),
       FirewallRule("Allow", "Outbound", Some("tcp"), None, None, Some(80), None, "Allow HTTP"),
       FirewallRule("Allow", "Outbound", Some("udp"), None, None, Some(53), None, "Allow DNS") >>

default_virtual_devices ==
    << VirtualDevice("NetworkAdapter", "virtio-net", TRUE, FALSE, FALSE),
       VirtualDevice("UsbController", "usb-tablet", TRUE, FALSE, TRUE) >>

(***************************************************************************)
(* Preset catalog: SecurityManager::get_preset_profiles                    *)
(***************************************************************************)
\* faulty variant: the SOCKS rule declared before the ICMP rule
paranoid_firewall_rules_socks_first ==
    << FirewallRule("Allow", "Outbound", Some("tcp"), None, Some("127.0.0.1"), Some(9050), None,
                    "Allow Tor SOCKS"),
       FirewallRule("Deny", "Outbound", Some("icmp"), None, None, None, None,
                    "Block ICMP to prevent fingerprinting") >>

paranoid_firewall_rules ==
    << FirewallRule("Deny", "Outbound", Some("icmp"), None, None, None, None,
                    "Block ICMP to prevent fingerprinting"),
       FirewallRule("Allow", "Outbound", Some("tcp"), None, Some("127.0.0.1"), Some(9050), None,
                    "Allow Tor SOCKS") >>

paranoid_profile ==
    SecurityProfile("paranoid", TRUE,
                    NetworkIsolation("TorOnly", FALSE, TRUE, None, Some("52:54:00:00:00:01")),
                    TRUE, None, None, paranoid_firewall_rules,
                    << VirtualDevice("NetworkAdapter", "tor-net", TRUE, FALSE, TRUE) >>)

stealth_profile ==
    SecurityProfile("stealth", TRUE,
                    NetworkIsolation("VpnOnly", FALSE, TRUE, None, Some("52:54:00:00:00:02")),
                    TRUE,
                    Some([provider |-> "WireGuard", config_file |-> None, server |-> None,
                          port |-> 51820, protocol |-> "UDP", username |-> None,
                          kill_switch |-> TRUE, dns_leak_protection |-> TRUE]),
                    None, default_firewall_rules, default_virtual_devices)

\* faulty variant: the single rule of the isolated preset denies inbound traffic only
isolated_firewall_rules_inbound_only ==
    << FirewallRule("Deny", "Inbound", None, None, None, None, None, "Block all traffic") >>

isolated_firewall_rules ==
    << FirewallRule("Deny", "Both", None, None, None, None, None, "Block all traffic") >>

isolated_profile ==
    SecurityProfile("isolated", TRUE,
                    NetworkIsolation("Full", FALSE, FALSE, Some("isolated-net-1"), None),
                    FALSE, None, None, isolated_firewall_rules, <<>>)

pentesting_profile ==
    SecurityProfile("pentesting", TRUE,
                    NetworkIsolation("Internal", TRUE, TRUE, Some("pentest-net"), None),
                    FALSE, None,
                    Some([proxy_type |-> "Socks5", host |-> "127.0.0.1", port |-> 1080,
                          username |-> None, password |-> None, chain |-> <<>>]),
                    default_firewall_rules, default_virtual_devices)

\* faulty variant: the stealth entry was pasted from the paranoid one and kept its profile
get_preset_profiles_pasted ==
    << <<"paranoid", "Maximum security - Full isolation, Tor routing, no host access",
         paranoid_profile>>,
       <<"stealth", "VPN + Tor chain for maximum anonymity", paranoid_profile>>,
       <<"isolated", "Complete network isolation - no internet access", isolated_profile>>,
       <<"pentesting", "Isolated network with tools access", pentesting_profile>> >>

get_preset_profiles ==
    << <<"paranoid", "Maximum security - Full isolation, Tor routing, no host access",
         paranoid_profile>>,
       <<"stealth", "VPN + Tor chain for maximum anonymity", stealth_profile>>,
       <<"isolated", "Complete network isolation - no internet access", isolated_profile>>,
       <<"pentesting", "Isolated network with tools access", pentesting_profile>> >>

(***************************************************************************)
(* Firewall compiler: SecurityManager::generate_iptables_rules             *)
(***************************************************************************)
\* faulty variant: Deny is compiled to DROP
action_verb_deny_drops(rule) ==
    CASE rule.action = "Allow" -> "ACCEPT"
      [] rule.action = "Deny" -> "DROP"
      [] rule.action = "Drop" -> "DROP"
      [] rule.action = "Log" -> "LOG"

action_verb(rule) ==
    CASE rule.action = "Allow" -> "ACCEPT"
      [] rule.action = "Deny" -> "REJECT"
      [] rule.action = "Drop" -> "DROP"
      [] rule.action = "Log" -> "LOG"

direction_flag(rule) ==
    CASE rule.direction = "Inbound" -> "-i"
      [] rule.direction = "Outbound" -> "-o"
      [] rule.direction = "Both" -> "-i"

\* the command built in `cmd` for one rule
rule_cmd(profile, rule, vm_interface) ==
    ("iptables -A n01d-" \o profile.name \o " " \o direction_flag(rule) \o " " \o vm_interface)
    \o (IF is_some(rule.protocol) THEN " -p " \o unwrap(rule.protocol) ELSE "")
    \o (IF is_some(rule.source) THEN " -s " \o unwrap(rule.source) ELSE "")
    \o (IF is_some(rule.destination) THEN " -d " \o unwrap(rule.destination) ELSE "")
    \o (IF is_some(rule.port) THEN " --dport " \o ToString(unwrap(rule.port)) ELSE "")
    \o (IF is_some(rule.port_range)
        THEN " --dport " \o ToString(unwrap(rule.port_range)[1]) \o ":"
                         \o ToString(unwrap(rule.port_range)[2])
        ELSE "")
    \o (" -j " \o action_verb(rule) \o " -m comment --comment \"" \o rule.description \o "\"")

\* the command built in `cmd_out` for a rule whose direction is Both
rule_cmd_out(profile, rule, vm_interface) ==
    ("iptables -A n01d-" \o profile.name \o " -o " \o vm_interface)
    \o (IF is_some(rule.protocol) THEN " -p " \o unwrap(rule.protocol) ELSE "")
    \o (" -j " \o action_verb(rule))

\* faulty variant: rules.insert(2, ..) instead of rules.push(..), so later rules come out first
push_rule_at_front(rules, profile, rule, vm_interface) ==
    LET emitted == IF rule.direction = "Both"
                   THEN << rule_cmd(profile, rule, vm_interface),
                           rule_cmd_out(profile, rule, vm_interface) >>
                   ELSE << rule_cmd(profile, rule, vm_interface) >>
    IN  SubSeq(rules, 1, 2) \o emitted \o SubSeq(rules, 3, Len(rules))

\* one iteration of `for rule in &profile.firewall_rules`
push_rule(rules, profile, rule, vm_interface) ==
    LET pushed == Append(rules, rule_cmd(profile, rule, vm_interface))
    IN  IF rule.direction = "Both"
        THEN Append(pushed, rule_cmd_out(profile, rule, vm_interface))
        ELSE pushed

RECURSIVE iptables_loop(_, _, _, _)
iptables_loop(rules, profile, vm_interface, i) ==
    IF i > Len(profile.firewall_rules)
    THEN rules
    ELSE iptables_loop(push_rule(rules, profile, profile.firewall_rules[i], vm_interface),
                       profile, vm_interface, i + 1)

chain_header(profile) ==
    << "iptables -F n01d-" \o profile.name,
       "iptables -N n01d-" \o profile.name \o " 2>/dev/null || true" >>

generate_iptables_rules(profile, vm_interface) ==
    iptables_loop(chain_header(profile), profile, vm_interface, 1)

(***************************************************************************)
(* Launch-argument compiler: SecurityManager::generate_qemu_security_args  *)
(***************************************************************************)
\* faulty variant: the sandbox flag is emitted whatever the profile says
sandbox_args_always(profile) == <<"-sandbox", "on">>

sandbox_args(profile) ==
    IF profile.sandbox_enabled THEN <<"-sandbox", "on">> ELSE <<>>

\* faulty variant: the Full arm emits the restricted user-mode device of the HostOnly arm
full_args_with_device ==
    <<"-netdev", "user,id=hostonly,restrict=on", "-device", "virtio-net-pci,netdev=hostonly">>

\* IsolationMode::Full arm
full_args == <<"-nic", "none">>

\* faulty variant: the guest-forward command is given the DNS port instead of the SOCKS port
tor_netdev_dns_port(self) ==
    "user,id=tornet,hostfwd=tcp::2222-:22,guestfwd=tcp:10.0.2.100:9050-cmd:nc 127.0.0.1 "
        \o ToString(self.tor_config.dns_port)

\* faulty variant: the port of the guest-forward command moves with the manager's catalog
tor_netdev_per_stored_profile(self) ==
    "user,id=tornet,hostfwd=tcp::2222-:22,guestfwd=tcp:10.0.2.100:9050-cmd:nc 127.0.0.1 "
        \o ToString(self.tor_config.socks_port + Cardinality(DOMAIN self.profiles))

\* the -netdev value of the IsolationMode::TorOnly arm
tor_netdev(self) ==
    "user,id=tornet,hostfwd=tcp::2222-:22,guestfwd=tcp:10.0.2.100:9050-cmd:nc 127.0.0.1 "
        \o ToString(self.tor_config.socks_port)

\* faulty variant: the device token names the default network whatever the identifier
internal_args_default_device(net_id) ==
    <<"-netdev", "socket,id=" \o net_id \o ",mcast=230.0.0.1:1234",
      "-device", "virtio-net-pci,netdev=internal">>

\* IsolationMode::Internal arm
internal_args(net_id) ==
    <<"-netdev", "socket,id=" \o net_id \o ",mcast=230.0.0.1:1234",
      "-device", "virtio-net-pci,netdev=" \o net_id>>

\* match &profile.network_isolation.mode { ... }
isolation_args(self, profile) ==
    LET mode == profile.network_isolation.mode
        net_id == unwrap_or(profile.network_isolation.isolated_network_id, "internal")
    IN  CASE mode = "Full" -> full_args
          [] mode = "HostOnly" ->
                <<"-netdev", "user,id=hostonly,restrict=on",
                  "-device", "virtio-net-pci,netdev=hostonly">>
          [] mode = "Internal" -> internal_args(net_id)
          [] mode = "TorOnly" ->
                <<"-netdev", tor_netdev(self), "-device", "virtio-net-pci,netdev=tornet">>
          [] mode = "VpnOnly" ->
                <<"-netdev", "user,id=vpnnet,restrict=off",
                  "-device", "virtio-net-pci,netdev=vpnnet">>
          [] OTHER -> <<>>

\* faulty variant: the suffix is appended to the "-device" flag instead of its value
RECURSIVE patch_mac_on_flag(_, _, _)
patch_mac_on_flag(args, mac, i) ==
    IF i > Len(args)
    THEN args
    ELSE IF args[i] = "-device"
         THEN [args EXCEPT ![i] = args[i] \o ",mac=" \o mac]
         ELSE patch_mac_on_flag(args, mac, i + 1)

\* faulty variant: the address is pushed as a token of its own
patch_mac_new_token(args, mac, i) == Append(args, "mac=" \o mac)

\* for i in 0..args.len() { if args[i].starts_with("virtio-net-pci") { ...; break; } }
RECURSIVE patch_mac(_, _, _)
patch_mac(args, mac, i) ==
    IF i > Len(args)
    THEN args
    ELSE IF starts_with(args[i], "virtio-net-pci")
         THEN [args EXCEPT ![i] = args[i] \o ",mac=" \o mac]
         ELSE patch_mac(args, mac, i + 1)

generate_qemu_security_args(self, profile) ==
    LET args == sandbox_args(profile) \o isolation_args(self, profile)
    IN  IF is_some(profile.network_isolation.mac_address)
        THEN patch_mac(args, unwrap(profile.network_isolation.mac_address), 1)
        ELSE args

(***************************************************************************)
(* Compiler inputs                                                         *)
(***************************************************************************)
MaxRules == 2

RuleSet ==
    { default_firewall_rules[1],
      default_firewall_rules[3],
      FirewallRule("Deny", "Both", None, None, None, None, None, "Block all traffic"),
      FirewallRule("Allow", "Both", Some("tcp"), Some("10.0.0.0/8"), Some("10.0.2.2"),
                   Some(22), None, "Allow SSH"),
      FirewallRule("Drop", "Inbound", Some("udp"), None, None, None, Some(<<6000, 6010>>),
                   "Drop X11"),
      FirewallRule("Log", "Inbound", None, Some("0.0.0.0/0"), None, None, None, "Log inbound"),
      FirewallRule("Allow", "Inbound", Some("tcp"), None, None, Some(8080),
                   Some(<<8000, 8100>>), "Allow web") }

RECURSIVE SeqsUpTo(_, _)
SeqsUpTo(S, n) ==
    IF n = 0 THEN { <<>> }
    ELSE LET shorter == SeqsUpTo(S, n - 1)
         IN  shorter \cup { Append(q, x) : q \in shorter, x \in S }

RuleLists == SeqsUpTo(RuleSet, MaxRules) \cup { default_firewall_rules }

ProfileNames == { "test", "isolated" }
Interfaces == { "tap0", "br0" }
MacAddresses == { "52:54:00:00:00:01", "52:54:00:00:00:02" }
NetworkIds == { "pentest-net", "isolated-net-1", "net 0,x=1" }

\* profiles that differ in what the firewall compiler reads
FirewallProfiles ==
    { SecurityProfile(n, TRUE, NetworkIsolation_default, FALSE, None, None, rs,
                      default_virtual_devices) :
        n \in ProfileNames, rs \in RuleLists }

\* profiles that differ in what the launch-argument compiler reads
LaunchProfiles ==
    { SecurityProfile("test", sb, NetworkIsolation(m, host, TRUE, id, mac), FALSE, None, None,
                      <<>>, <<>>) :
        sb \in BOOLEAN, m \in IsolationMode, host \in BOOLEAN,
        id \in { None } \cup { Some(x) : x \in NetworkIds },
        mac \in { None } \cup { Some(x) : x \in MacAddresses } }

\* the profiles of the preset catalog
PresetProfiles == { get_preset_profiles[i][3] : i \in 1..Len(get_preset_profiles) }

CompilerProfiles == FirewallProfiles \cup LaunchProfiles \cup PresetProfiles

(***************************************************************************)
(* serde_json: a document is a tree of tagged values.  Unit enum variants  *)
(* serialise as strings, Option as null or the value, tuples and Vec as    *)
(* arrays, structs and HashMap<String, _> as objects.                      *)
(***************************************************************************)
JNull == <<"null">>
JBool(b) == <<"bool", b>>
JNum(n) == <<"num", n>>
JStr(x) == <<"str", x>>
JArr(xs) == <<"arr", xs>>
JObj(f) == <<"obj", f>>

Ok(x) == <<"Ok", x>>
Err(e) == <<"Err", e>>
is_ok(r) == r[1] = "Ok"

opt_str_to_json(o) == IF is_some(o) THEN JStr(unwrap(o)) ELSE JNull
opt_str_from_json(j) == IF j = JNull THEN None ELSE Some(j[2])
opt_num_to_json(o) == IF is_some(o) THEN JNum(unwrap(o)) ELSE JNull
opt_num_from_json(j) == IF j = JNull THEN None ELSE Some(j[2])

rule_to_json(r) ==
    JObj([action |-> JStr(r.action), direction |-> JStr(r.direction),
          protocol |-> opt_str_to_json(r.protocol),
          source |-> opt_str_to_json(r.source),
          destination |-> opt_str_to_json(r.destination),
          port |-> opt_num_to_json(r.port),
          port_range |-> IF is_some(r.port_range)
                         THEN JArr(<<JNum(unwrap(r.port_range)[1]),
                                     JNum(unwrap(r.port_range)[2])>>)
                         ELSE JNull,
          description |-> JStr(r.description)])

rule_from_json(j) ==
    LET o == j[2]
    IN  FirewallRule(o.action[2], o.direction[2],
                     opt_str_from_json(o.protocol), opt_str_from_json(o.source),
                     opt_str_from_json(o.destination), opt_num_from_json(o.port),
                     IF o.port_range = JNull THEN None
                     ELSE Some(<<o.port_range[2][1][2], o.port_range[2][2][2]>>),
                     o.description[2])

device_to_json(d) ==
    JObj([device_type |-> JStr(d.device_type), name |-> JStr(d.name),
          enabled |-> JBool(d.enabled), passthrough |-> JBool(d.passthrough),
          isolated |-> JBool(d.isolated)])

device_from_json(j) ==
    LET o == j[2]
    IN  VirtualDevice(o.device_type[2], o.name[2], o.enabled[2], o.passthrough[2],
                      o.isolated[2])

isolation_to_json(n) ==
    JObj([mode |-> JStr(n.mode), allow_host_access |-> JBool(n.allow_host_access),
          allow_internet |-> JBool(n.allow_internet),
          isolated_network_id |-> opt_str_to_json(n.isolated_network_id),
          mac_address |-> opt_str_to_json(n.mac_address)])

isolation_from_json(j) ==
    LET o == j[2]
    IN  NetworkIsolation(o.mode[2], o.allow_host_access[2], o.allow_internet[2],
                         opt_str_from_json(o.isolated_network_id),
                         opt_str_from_json(o.mac_address))

vpn_to_json(v) ==
    JObj([provider |-> JStr(v.provider), config_file |-> opt_str_to_json(v.config_file),
          server |-> opt_str_to_json(v.server), port |-> JNum(v.port),
          protocol |-> JStr(v.protocol), username |-> opt_str_to_json(v.username),
          kill_switch |-> JBool(v.kill_switch),
          dns_leak_protection |-> JBool(v.dns_leak_protection)])

vpn_from_json(j) ==
    LET o == j[2]
    IN  [provider |-> o.provider[2], config_file |-> opt_str_from_json(o.config_file),
         server |-> opt_str_from_json(o.server), port |-> o.port[2],
         protocol |-> o.protocol[2], username |-> opt_str_from_json(o.username),
         kill_switch |-> o.kill_switch[2],
         dns_leak_protection |-> o.dns_leak_protection[2]]

hop_to_json(h) ==
    JObj([proxy_type |-> JStr(h.proxy_type), host |-> JStr(h.host), port |-> JNum(h.port)])

hop_from_json(j) ==
    [proxy_type |-> j[2].proxy_type[2], host |-> j[2].host[2], port |-> j[2].port[2]]

proxy_to_json(x) ==
    JObj([proxy_type |-> JStr(x.proxy_type), host |-> JStr(x.host), port |-> JNum(x.port),
          username |-> opt_str_to_json(x.username),
          password |-> opt_str_to_json(x.password),
          chain |-> JArr([i \in 1..Len(x.chain) |-> hop_to_json(x.chain[i])])])

proxy_from_json(j) ==
    LET o == j[2]
    IN  [proxy_type |-> o.proxy_type[2], host |-> o.host[2], port |-> o.port[2],
         username |-> opt_str_from_json(o.username),
         password |-> opt_str_from_json(o.password),
         chain |-> [i \in 1..Len(o.chain[2]) |-> hop_from_json(o.chain[2][i])]]

profile_to_json(p) ==
    JObj([name |-> JStr(p.name), sandbox_enabled |-> JBool(p.sandbox_enabled),
          network_isolation |-> isolation_to_json(p.network_isolation),
          tor_enabled |-> JBool(p.tor_enabled),
          vpn_config |-> IF is_some(p.vpn_config)
                         THEN vpn_to_json(unwrap(p.vpn_config)) ELSE JNull,
          proxy_config |-> IF is_some(p.proxy_config)
                           THEN proxy_to_json(unwrap(p.proxy_config)) ELSE JNull,
          firewall_rules |->
              JArr([i \in 1..Len(p.firewall_rules) |-> rule_to_json(p.firewall_rules[i])]),
          virtual_devices |->
              JArr([i \in 1..Len(p.virtual_devices) |-> device_to_json(p.virtual_devices[i])])])

profile_from_json(j) ==
    LET o == j[2]
    IN  SecurityProfile(o.name[2], o.sandbox_enabled[2],
                        isolation_from_json(o.network_isolation), o.tor_enabled[2],
                        IF o.vpn_config = JNull THEN None
                        ELSE Some(vpn_from_json(o.vpn_config)),
                        IF o.proxy_config = JNull THEN None
                        ELSE Some(proxy_from_json(o.proxy_config)),
                        [i \in 1..Len(o.firewall_rules[2]) |->
                            rule_from_json(o.firewall_rules[2][i])],
                        [i \in 1..Len(o.virtual_devices[2]) |->
                            device_from_json(o.virtual_devices[2][i])])

\* HashMap<String, SecurityProfile>
profiles_to_json(m) == JObj([k \in DOMAIN m |-> profile_to_json(m[k])])
profiles_from_json(j) == [k \in DOMAIN j[2] |-> profile_from_json(j[2][k])]

(***************************************************************************)
(* Files.  A file is missing, holds a complete document, or holds the      *)
(* unparsable remainder of a write that failed after fs::write had         *)
(* truncated it.                                                           *)
(***************************************************************************)
Missing == <<"missing">>
Partial == <<"partial">>
Written(doc) == <<"written", doc>>

exists(file) == file # Missing

\* fs::read_to_string(..).unwrap_or_default(): the text read, "" when the read fails
Garbage == <<"garbage">>
read_to_string_or_default(file, read_ok) ==
    IF read_ok /\ file[1] = "written" THEN <<"text", file[2]>> ELSE Garbage

\* what fs::write(path, content) can do to the file
WriteOutcomes == { "ok", "open_err", "write_err" }

fs_write(file, content, outcome) ==
    CASE outcome = "ok" -> [result |-> Ok(<<>>), file |-> Written(content)]
      [] outcome = "open_err" -> [result |-> Err("io"), file |-> file]
      [] outcome = "write_err" -> [result |-> Err("io"), file |-> Partial]

(***************************************************************************)
(* config.json: AppConfig, load_config, save_config (main.rs)              *)
(***************************************************************************)
EmptyMap == [k \in {} |-> <<>>]

insert(m, k, v) == [x \in DOMAIN m \cup {k} |-> IF x = k THEN v ELSE m[x]]
remove(m, k) == [x \in DOMAIN m \ {k} |-> m[x]]
get(m, k) == IF k \in DOMAIN m THEN Some(m[k]) ELSE None

AppConfig(vms, ram, cpus, profiles, tor, default_profile) ==
    [vms |-> vms, default_ram |-> ram, default_cpus |-> cpus,
     security_profiles |-> profiles, tor_enabled |-> tor,
     default_security_profile |-> default_profile]

\* faulty variant: the fallback configuration is seeded with a profile
AppConfig_fallback_seeded ==
    AppConfig(EmptyMap, 4096, 4,
              [k \in { "default" } |->
                  SecurityProfile(k, TRUE, NetworkIsolation_default, FALSE, None, None,
                                  default_firewall_rules, default_virtual_devices)],
              FALSE, None)

\* the literal both fallback branches of load_config build
AppConfig_fallback == AppConfig(EmptyMap, 4096, 4, EmptyMap, FALSE, None)

vm_to_json(vm) ==
    JObj([disk |-> JStr(vm.disk), iso |-> opt_str_to_json(vm.iso), ram |-> JNum(vm.ram),
          cpus |-> JNum(vm.cpus), security_profile |-> opt_str_to_json(vm.security_profile)])

vm_from_json(j) ==
    [disk |-> j[2].disk[2], iso |-> opt_str_from_json(j[2].iso), ram |-> j[2].ram[2],
     cpus |-> j[2].cpus[2], security_profile |-> opt_str_from_json(j[2].security_profile)]

config_to_json(c) ==
    JObj([vms |-> JObj([k \in DOMAIN c.vms |-> vm_to_json(c.vms[k])]),
          default_ram |-> JNum(c.default_ram), default_cpus |-> JNum(c.default_cpus),
          security_profiles |-> profiles_to_json(c.security_profiles),
          tor_enabled |-> JBool(c.tor_enabled),
          default_security_profile |-> opt_str_to_json(c.default_security_profile)])

\* serde_json::from_str::<AppConfig>: Err unless the text is a complete AppConfig document
config_from_str(text) ==
    IF text = Garbage \/ text[2][1] # "obj"
       \/ DOMAIN text[2][2] # DOMAIN AppConfig_fallback
    THEN Err("parse")
    ELSE LET o == text[2][2]
         IN  Ok(AppConfig([k \in DOMAIN o.vms[2] |-> vm_from_json(o.vms[2][k])],
                          o.default_ram[2], o.default_cpus[2],
                          profiles_from_json(o.security_profiles),
                          o.tor_enabled[2],
                          opt_str_from_json(o.default_security_profile)))

load_config(file, read_ok) ==
    IF exists(file)
    THEN LET parsed == config_from_str(read_to_string_or_default(file, read_ok))
         IN  IF is_ok(parsed) THEN parsed[2] ELSE AppConfig_fallback
    ELSE AppConfig_fallback

\* what save_config can meet: create_dir_all failing, or one of fs::write's outcomes
SaveOutcomes == { "dir_err" } \cup WriteOutcomes

save_config(config, file, outcome) ==
    IF outcome = "dir_err"
    THEN [result |-> Err("io"), file |-> file]
    ELSE fs_write(file, config_to_json(config), outcome)

(***************************************************************************)
(* security_profiles.json: SecurityManager::new, save_profiles,            *)
(* create_profile (security.rs)                                            *)
(***************************************************************************)
\* serde_json::from_str::<HashMap<String, SecurityProfile>>
profiles_from_str(text) ==
    IF text = Garbage \/ text[2][1] # "obj"
    THEN Err("parse")
    ELSE Ok(profiles_from_json(text[2]))

SecurityManager_new(file, read_ok) ==
    LET parsed == profiles_from_str(read_to_string_or_default(file, read_ok))
        profiles == IF exists(file)
                    THEN (IF is_ok(parsed) THEN parsed[2] ELSE EmptyMap)
                    ELSE EmptyMap
    IN  [profiles |-> profiles, tor_config |-> TorConfig_default]

save_profiles(self, file, outcome) ==
    fs_write(file, profiles_to_json(self.profiles), outcome)

\* the profile create_profile builds for `name`
new_profile(name) ==
    SecurityProfile(name, TRUE, NetworkIsolation_default, FALSE, None, None,
                    default_firewall_rules, default_virtual_devices)

(***************************************************************************)
(* Store inputs                                                            *)
(***************************************************************************)
StoreKeys == { "test", "paranoid" }

SampleVpn ==
    [provider |-> "WireGuard", config_file |-> None, server |-> Some("vpn.example.org"),
     port |-> 51820, protocol |-> "UDP", username |-> None, kill_switch |-> TRUE,
     dns_leak_protection |-> TRUE]

SampleProxy ==
    [proxy_type |-> "Socks5", host |-> "127.0.0.1", port |-> 1080, username |-> None,
     password |-> Some("secret"),
     chain |-> << [proxy_type |-> "Http", host |-> "10.0.0.1", port |-> 8080] >>]

\* a profile with empty rule and device sequences, one with every optional part set and
\* two rules in non-alphabetical order, and one named after a preset
StoreProfiles ==
    { SecurityProfile("test", TRUE, NetworkIsolation_default, FALSE, None, None, <<>>, <<>>),
      SecurityProfile("test", FALSE,
                      NetworkIsolation("HostOnly", FALSE, TRUE, Some("pentest-net"),
                                       Some("52:54:00:00:00:01")),
                      TRUE, Some(SampleVpn), Some(SampleProxy),
                      << FirewallRule("Drop", "Inbound", Some("udp"), None, None, None,
                                      Some(<<6000, 6010>>), "Drop X11"),
                         FirewallRule("Deny", "Both", None, None, None, None, None,
                                      "Block all traffic") >>,
                      default_virtual_devices),
      SecurityProfile("paranoid", TRUE,
                      NetworkIsolation("Full", FALSE, FALSE, None, None),
                      FALSE, None, None, default_firewall_rules, <<>>) }

Settings == { <<4096, 4>>, <<2048, 2>> }

\* the virtual machines create_vm is asked for: (name, iso, ram, cpus, disk_size)
VmRequests == { <<"vm1", None, 2048, 2, 20>> }

VmNames == { r[1] : r \in VmRequests }

\* the profile names handed to run_vm_secure: a key of the store, a key of the store that
\* is also a preset name, a preset name that is never stored, and a name that is neither
LaunchNames == StoreKeys \cup { "isolated", "ghost" }

\* the names handed to SecurityManager::create_profile
ManagerNames == { "test" }

(***************************************************************************)
(* State                                                                   *)
(***************************************************************************)
NoInput == [profile |-> new_profile("test"), vm_interface |-> "tap0"]
NoOutput == [fn |-> "none", value |-> <<>>]

Report(cmd, name, profile, result, before, read_ok) ==
    [cmd |-> cmd, name |-> name, profile |-> profile, result |-> result,
     before |-> before, read_ok |-> read_ok]

\* the running instances of the application that share config.json
Instances == { 1, 2 }

Idle == [stage |-> "idle"]

StoreInit ==
    /\ inflight = [i \in Instances |-> Idle]
    /\ configFile = Missing
    /\ profilesFile = Missing
    /\ manager = SecurityManager_new(Missing, TRUE)
    /\ last = Report("none", "", None, Ok(<<>>), Missing, TRUE)

Init ==
    /\ StoreInit
    /\ cin = NoInput
    /\ cout = NoOutput

(***************************************************************************)
(* Commands of main.rs                                                     *)
(***************************************************************************)
get_custom_security_profiles ==
    \E read_ok \in BOOLEAN :
        /\ last' = Report("get_custom_security_profiles", "", None,
                          load_config(configFile, read_ok).security_profiles,
                          configFile, read_ok)
        /\ UNCHANGED <<inflight, cin, cout, configFile, profilesFile, manager>>

create_security_profile ==
    \E name \in StoreKeys, profile \in StoreProfiles, read_ok \in BOOLEAN,
       outcome \in SaveOutcomes :
        LET config == load_config(configFile, read_ok)
            inserted == [config EXCEPT
                            !.security_profiles = insert(config.security_profiles, name, profile)]
            saved == save_config(inserted, configFile, outcome)
        IN  /\ configFile' = saved.file
            /\ last' = Report("create_security_profile", name, Some(profile),
                              IF is_ok(saved.result)
                              THEN Ok("Security profile '" \o name \o "' created")
                              ELSE saved.result,
                              configFile, read_ok)
            /\ UNCHANGED <<inflight, cin, cout, profilesFile, manager>>

delete_security_profile ==
    \E name \in StoreKeys, read_ok \in BOOLEAN, outcome \in SaveOutcomes :
        LET config == load_config(configFile, read_ok)
            removed == [config EXCEPT
                            !.security_profiles = remove(config.security_profiles, name)]
            saved == save_config(removed, configFile, outcome)
        IN  /\ configFile' = saved.file
            /\ last' = Report("delete_security_profile", name, None,
                              IF is_ok(saved.result)
                              THEN Ok("Security profile '" \o name \o "' deleted")
                              ELSE saved.result,
                              configFile, read_ok)
            /\ UNCHANGED <<inflight, cin, cout, profilesFile, manager>>

save_settings ==
    \E s \in Settings, read_ok \in BOOLEAN, outcome \in SaveOutcomes :
        LET config == load_config(configFile, read_ok)
            updated == [config EXCEPT !.default_ram = s[1], !.default_cpus = s[2]]
            saved == save_config(updated, configFile, outcome)
        IN  /\ configFile' = saved.file
            /\ last' = Report("save_settings", "", None,
                              IF is_ok(saved.result) THEN Ok("Settings saved")
                              ELSE saved.result,
                              configFile, read_ok)
            /\ UNCHANGED <<inflight, cin, cout, profilesFile, manager>>

\* what create_vm can meet before it saves: create_dir_all failing, qemu-img not
\* starting, qemu-img exiting with a failure status
CreateVmOutcomes == { "vm_dir_err", "qemu_img_spawn_err", "qemu_img_failed" } \cup SaveOutcomes

\* the directory and the disk image of the virtual machine are not part of the state
create_vm ==
    \E r \in VmRequests, read_ok \in BOOLEAN, outcome \in CreateVmOutcomes :
        LET name == r[1]
            config == load_config(configFile, read_ok)
            disk_path == "vms/" \o name \o "/" \o name \o ".qcow2"
            inserted == [config EXCEPT
                            !.vms = insert(config.vms, name,
                                           [disk |-> disk_path, iso |-> r[2], ram |-> r[3],
                                            cpus |-> r[4], security_profile |-> None])]
            early == IF name \in DOMAIN config.vms
                     THEN Some(Err("VM '" \o name \o "' already exists"))
                     ELSE IF outcome = "vm_dir_err" THEN Some(Err("io"))
                     ELSE IF outcome = "qemu_img_spawn_err"
                     THEN Some(Err("Failed to create disk: io"))
                     ELSE IF outcome = "qemu_img_failed" THEN Some(Err("qemu-img failed: "))
                     ELSE None
            saved == IF is_some(early)
                     THEN [result |-> unwrap(early), file |-> configFile]
                     ELSE save_config(inserted, configFile, outcome)
        IN  /\ configFile' = saved.file
            /\ last' = Report("create_vm", name, None,
                              IF is_ok(saved.result)
                              THEN Ok("VM '" \o name \o "' created successfully")
                              ELSE saved.result,
                              configFile, read_ok)
            /\ UNCHANGED <<inflight, cin, cout, profilesFile, manager>>

get_security_profiles ==
    /\ last' = Report("get_security_profiles", "", None,
                      [i \in 1..Len(get_preset_profiles) |->
                          <<get_preset_profiles[i][1], get_preset_profiles[i][2],
                            get_preset_profiles[i][3]>>],
                      configFile, TRUE)
    /\ UNCHANGED <<inflight, cin, cout, configFile, profilesFile, manager>>

\* Iterator::find over the preset catalog: the first entry named profile_name
find_preset(profile_name) ==
    LET hits == { i \in 1..Len(get_preset_profiles) : get_preset_profiles[i][1] = profile_name }
    IN  IF hits = {} THEN None
        ELSE Some(get_preset_profiles[CHOOSE i \in hits : \A j \in hits : i <= j][3])

\* faulty variant: only the stored profiles are searched
resolve_security_profile_store_only(config, profile_name) ==
    IF is_some(get(config.security_profiles, profile_name))
    THEN Ok(unwrap(get(config.security_profiles, profile_name)))
    ELSE Err("Security profile '" \o profile_name \o "' not found")

\* the `let security_profile = ...` of run_vm_secure
resolve_security_profile(config, profile_name) ==
    IF is_some(get(config.security_profiles, profile_name))
    THEN Ok(unwrap(get(config.security_profiles, profile_name)))
    ELSE IF is_some(find_preset(profile_name))
    THEN Ok(unwrap(find_preset(profile_name)))
    ELSE Err("Security profile '" \o profile_name \o "' not found")

\* the command line of the child process is built from the virtual machine and from
\* generate_qemu_security_args of the resolved profile; the report keeps the resolved profile
run_vm_secure ==
    \E name \in VmNames, profile_name \in LaunchNames, read_ok \in BOOLEAN,
       spawn_ok \in BOOLEAN :
        LET config == load_config(configFile, read_ok)
            vm == get(config.vms, name)
            resolved == resolve_security_profile(config, profile_name)
            launched == is_some(vm) /\ is_ok(resolved)
        IN  /\ last' = Report("run_vm_secure", [vm |-> name, profile |-> profile_name],
                              IF launched THEN Some(resolved[2]) ELSE None,
                              IF ~is_some(vm) THEN Err("VM '" \o name \o "' not found")
                              ELSE IF ~is_ok(resolved) THEN resolved
                              ELSE IF ~spawn_ok THEN Err("Failed to start VM: io")
                              ELSE Ok("VM '" \o name \o "' started with '" \o profile_name
                                      \o "' security profile"),
                              configFile, read_ok)
            /\ UNCHANGED <<inflight, cin, cout, configFile, profilesFile, manager>>

(***************************************************************************)
(* SecurityManager operations                                              *)
(***************************************************************************)
new ==
    \E read_ok \in BOOLEAN :
        /\ manager' = SecurityManager_new(profilesFile, read_ok)
        /\ last' = Report("new", "", None, manager'.profiles, profilesFile, read_ok)
        /\ UNCHANGED <<inflight, cin, cout, configFile, profilesFile>>

create_profile ==
    \E name \in ManagerNames, outcome \in WriteOutcomes :
        LET profile == new_profile(name)
            inserted == [manager EXCEPT !.profiles = insert(manager.profiles, name, profile)]
            saved == save_profiles(inserted, profilesFile, outcome)
        IN  /\ manager' = inserted
            /\ profilesFile' = saved.file
            /\ last' = Report("create_profile", name, Some(profile), profile,
                              profilesFile, TRUE)
            /\ UNCHANGED <<inflight, cin, cout, configFile>>

Next ==
    \/ get_custom_security_profiles
    \/ create_security_profile
    \/ delete_security_profile
    \/ save_settings

\* the commands of main.rs working on config.json
Spec == Init /\ [][Next]_vars

NextStore ==
    \/ Next
    \/ new
    \/ create_profile

\* both catalogs: the commands of main.rs and a SecurityManager
SpecStore == Init /\ [][NextStore]_vars

NextLaunch ==
    \/ Next
    \/ create_vm
    \/ get_security_profiles
    \/ run_vm_secure

\* the commands of main.rs with virtual machines, the preset catalog and secure launches
SpecLaunch == Init /\ [][NextLaunch]_vars

(***************************************************************************)
(* Commands of main.rs run by two instances on the same config.json: each  *)
(* command calls load_config, changes the value it got, and calls          *)
(* save_config; nothing keeps another command from running between the     *)
(* two calls.  Every read and write succeeds here, so what a command loses *)
(* it loses to the interleaving.                                           *)
(***************************************************************************)
\* the commands an instance is asked to run: (command, name, argument)
ConcurrentCommands ==
    { <<"create_security_profile", p.name, Some(p)>> : p \in StoreProfiles }
    \cup { <<"create_vm", r[1], Some(r)>> : r \in VmRequests }
    \cup { <<"save_settings", "", Some(<<2048, 2>>)>> }

\* `let mut config = load_config();`
load_step(i) ==
    /\ inflight[i].stage # "loaded"
    /\ \E c \in ConcurrentCommands :
          inflight' = [inflight EXCEPT
                          ![i] = [stage |-> "loaded", cmd |-> c[1], name |-> c[2],
                                  arg |-> c[3], config |-> load_config(configFile, TRUE)]]
    /\ UNCHANGED <<cin, cout, configFile, profilesFile, manager, last>>

\* the reply of a command, kept by the instance that ran it
Done(c, result) ==
    [stage |-> "done", cmd |-> c.cmd, name |-> c.name, arg |-> c.arg, result |-> result]

\* create_security_profile from `config.security_profiles.insert(name, profile);` on
finish_create_security_profile(i) ==
    LET c == inflight[i]
        inserted == [c.config EXCEPT
                        !.security_profiles = insert(@, c.name, unwrap(c.arg))]
        saved == save_config(inserted, configFile, "ok")
    IN  /\ c.stage = "loaded" /\ c.cmd = "create_security_profile"
        /\ configFile' = saved.file
        /\ inflight' = [inflight EXCEPT
                           ![i] = Done(c, Ok("Security profile '" \o c.name \o "' created"))]
        /\ UNCHANGED <<cin, cout, profilesFile, manager, last>>

\* create_vm from `if config.vms.contains_key(&name)` on
finish_create_vm(i) ==
    LET c == inflight[i]
        r == unwrap(c.arg)
        inserted == [c.config EXCEPT
                        !.vms = insert(@, c.name,
                                       [disk |-> "vms/" \o c.name \o "/" \o c.name \o ".qcow2",
                                        iso |-> r[2], ram |-> r[3], cpus |-> r[4],
                                        security_profile |-> None])]
        exists_already == c.name \in DOMAIN c.config.vms
        saved == save_config(inserted, configFile, "ok")
    IN  /\ c.stage = "loaded" /\ c.cmd = "create_vm"
        /\ configFile' = IF exists_already THEN configFile ELSE saved.file
        /\ inflight' = [inflight EXCEPT
                           ![i] = Done(c, IF exists_already
                                          THEN Err("VM '" \o c.name \o "' already exists")
                                          ELSE Ok("VM '" \o c.name
                                                  \o "' created successfully"))]
        /\ UNCHANGED <<cin, cout, profilesFile, manager, last>>

\* save_settings from `config.default_ram = default_ram;` on
finish_save_settings(i) ==
    LET c == inflight[i]
        updated == [c.config EXCEPT !.default_ram = unwrap(c.arg)[1],
                                    !.default_cpus = unwrap(c.arg)[2]]
        saved == save_config(updated, configFile, "ok")
    IN  /\ c.stage = "loaded" /\ c.cmd = "save_settings"
        /\ configFile' = saved.file
        /\ inflight' = [inflight EXCEPT ![i] = Done(c, Ok("Settings saved"))]
        /\ UNCHANGED <<cin, cout, profilesFile, manager, last>>

NextConcurrent ==
    \E i \in Instances :
        \/ load_step(i)
        \/ finish_create_security_profile(i)
        \/ finish_create_vm(i)
        \/ finish_save_settings(i)

SpecConcurrent == Init /\ [][NextConcurrent]_vars

(***************************************************************************)
(* The compilers applied to bounded inputs                                 *)
(***************************************************************************)
CompilerInputs ==
    { [profile |-> p, vm_interface |-> i] : p \in CompilerProfiles, i \in Interfaces }

InitCompile ==
    /\ StoreInit
    /\ cin \in CompilerInputs
    /\ cout = NoOutput

GenerateIptablesRules ==
    /\ cout' = [fn |-> "generate_iptables_rules",
                value |-> generate_iptables_rules(cin.profile, cin.vm_interface)]
    /\ UNCHANGED <<cin, storeVars>>

GenerateQemuSecurityArgs ==
    /\ cout' = [fn |-> "generate_qemu_security_args",
                value |-> generate_qemu_security_args(manager, cin.profile)]
    /\ UNCHANGED <<cin, storeVars>>

NextCompile ==
    \/ GenerateIptablesRules
    \/ GenerateQemuSecurityArgs

SpecCompile == InitCompile /\ [][NextCompile]_vars

NextRecompile ==
    \/ NextCompile
    \/ new
    \/ create_profile

\* the compilers of one SecurityManager interleaved with its store operations
SpecRecompile == InitCompile /\ [][NextRecompile]_vars

(***************************************************************************)
(* Text compilers: SecurityManager::generate_torrc and                     *)
(* SecurityManager::generate_wireguard_config                              *)
(***************************************************************************)
\* [String]::join
RECURSIVE join(_, _)
join(list, sep) ==
    IF list = <<>> THEN ""
    ELSE IF Len(list) = 1 THEN list[1]
    ELSE list[1] \o sep \o join(Tail(list), sep)

\* the Bridge lines pushed by `for bridge in &config.bridges`
RECURSIVE bridge_lines(_)
bridge_lines(bridges) ==
    IF bridges = <<>> THEN ""
    ELSE "Bridge " \o bridges[1] \o "\n" \o bridge_lines(Tail(bridges))

generate_torrc(self, vm_name) ==
    LET config == self.tor_config
    IN  ("# n01d Machine Tor Configuration for " \o vm_name \o "\n"
         \o "SocksPort " \o ToString(config.socks_port) \o "\n"
         \o "ControlPort " \o ToString(config.control_port) \o "\n"
         \o "DNSPort " \o ToString(config.dns_port) \o "\n"
         \o "AutomapHostsOnResolve 1\n"
         \o "AutomapHostsSuffixes .onion,.exit\n"
         \o "VirtualAddrNetworkIPv4 10.192.0.0/10\n")
        \o (IF config.transparent_proxy THEN "TransPort 9040\n" ELSE "")
        \o (IF config.bridge_enabled /\ config.bridges # <<>>
            THEN "UseBridges 1\n" \o bridge_lines(config.bridges) ELSE "")
        \o (IF is_some(config.exit_nodes)
            THEN "ExitNodes " \o join(unwrap(config.exit_nodes), ",") \o "\n" ELSE "")
        \o (IF is_some(config.exclude_exit_nodes)
            THEN "ExcludeExitNodes " \o join(unwrap(config.exclude_exit_nodes), ",") \o "\n"
            ELSE "")
        \o (IF config.strict_nodes THEN "StrictNodes 1\n" ELSE "")
        \o ("NewCircuitPeriod " \o ToString(config.new_circuit_period) \o "\n")

\* faulty variant: a kill switch adds firewall hooks to the interface block
generate_wireguard_config_kill_switch(vpn) ==
    "[Interface]\nPrivateKey = <YOUR_PRIVATE_KEY>\nAddress = 10.0.0.2/24\nDNS = 1.1.1.1\n"
    \o (IF vpn.kill_switch THEN "PostUp = iptables -I OUTPUT ! -o %i -j REJECT\n" ELSE "")
    \o "\n[Peer]\nPublicKey = <SERVER_PUBLIC_KEY>\n"
    \o "Endpoint = " \o unwrap_or(vpn.server, "vpn.example.com") \o ":" \o ToString(vpn.port)
    \o "\nAllowedIPs = 0.0.0.0/0\nPersistentKeepalive = 25\n"

generate_wireguard_config(vpn) ==
    "[Interface]\nPrivateKey = <YOUR_PRIVATE_KEY>\nAddress = 10.0.0.2/24\nDNS = 1.1.1.1\n"
    \o "\n[Peer]\nPublicKey = <SERVER_PUBLIC_KEY>\n"
    \o "Endpoint = " \o unwrap_or(vpn.server, "vpn.example.com") \o ":" \o ToString(vpn.port)
    \o "\nAllowedIPs = 0.0.0.0/0\nPersistentKeepalive = 25\n"

\* values of the TorConfig type: every flag, no or two bridges, and each node list absent,
\* present and empty, or present with members
TorConfigs ==
    { [TorConfig_default EXCEPT !.transparent_proxy = tp, !.bridge_enabled = be,
                                !.bridges = bs, !.exit_nodes = en,
                                !.exclude_exit_nodes = ex, !.strict_nodes = sn] :
        tp \in BOOLEAN, be \in BOOLEAN,
        bs \in { <<>>, << "obfs4 192.0.2.1:443", "obfs4 192.0.2.2:443" >> },
        en \in { None, Some(<<>>), Some(<< "{us}", "{de}" >>) },
        ex \in { None, Some(<<>>), Some(<< "{ru}" >>) },
        sn \in BOOLEAN }

\* values of the VpnConfig type: server set or not, two ports, and each other field at
\* either of two values
VpnConfigs ==
    { [provider |-> "WireGuard", config_file |-> cf, server |-> sv, port |-> pt,
       protocol |-> pr, username |-> un, kill_switch |-> ks, dns_leak_protection |-> dl] :
        cf \in { None, Some("wg0.conf") }, sv \in { None, Some("vpn.example.org") },
        pt \in { 51820, 443 }, pr \in { "UDP", "TCP" }, un \in { None, Some("alice") },
        ks \in BOOLEAN, dl \in BOOLEAN }

TorrcNames == { "vm1", "kali" }

\* an input of either text compiler
ConfigInputs ==
    { [fn |-> "generate_torrc", tor_config |-> t, vm_name |-> n] :
        t \in TorConfigs, n \in TorrcNames }
    \cup { [fn |-> "generate_wireguard_config", vpn |-> v] : v \in VpnConfigs }

\* generate_torrc reads every field of the manager's TorConfig, so the manager here holds
\* any value of that type
InitConfig ==
    /\ cin \in ConfigInputs
    /\ cout = NoOutput
    /\ inflight = [i \in Instances |-> Idle]
    /\ configFile = Missing
    /\ profilesFile = Missing
    /\ manager = [profiles |-> EmptyMap,
                  tor_config |-> IF cin.fn = "generate_torrc" THEN cin.tor_config
                                 ELSE TorConfig_default]
    /\ last = Report("none", "", None, Ok(<<>>), Missing, TRUE)

GenerateTorrc ==
    /\ cin.fn = "generate_torrc"
    /\ cout' = [fn |-> "generate_torrc", value |-> generate_torrc(manager, cin.vm_name)]
    /\ UNCHANGED <<cin, storeVars>>

GenerateWireguardConfig ==
    /\ cin.fn = "generate_wireguard_config"
    /\ cout' = [fn |-> "generate_wireguard_config",
                value |-> generate_wireguard_config(cin.vpn)]
    /\ UNCHANGED <<cin, storeVars>>

NextConfig ==
    \/ GenerateTorrc
    \/ GenerateWireguardConfig

SpecConfig == InitConfig /\ [][NextConfig]_vars

(***************************************************************************)
(* Properties of the firewall compiler (checked under SpecCompile)         *)
(***************************************************************************)
IptablesDone == cout.fn = "generate_iptables_rules"
QemuDone == cout.fn = "generate_qemu_security_args"

\* number of commands emitted before the first command of rule i: the two chain commands,
\* then one command per earlier rule and two per earlier Both rule
RECURSIVE cmds_before(_, _)
cmds_before(rules, i) ==
    IF i = 1 THEN 2
    ELSE cmds_before(rules, i - 1) + (IF rules[i - 1].direction = "Both" THEN 2 ELSE 1)

carries_description(cmd, rule) == contains(cmd, rule.description)

\* C1: a rule with direction Both yields exactly two commands, the inbound one immediately
\* before the outbound one, and both carry the rule's description.
C1_BothRuleTwoCommentedCommands ==
    IptablesDone =>
        LET rules == cin.profile.firewall_rules
            out == cout.value
        IN  /\ Len(out) = cmds_before(rules, Len(rules) + 1)
            /\ \A i \in 1..Len(rules) :
                 rules[i].direction = "Both" =>
                    LET b == cmds_before(rules, i)
                    IN  /\ contains(out[b + 1], " -i " \o cin.vm_interface)
                        /\ contains(out[b + 2], " -o " \o cin.vm_interface)
                        /\ carries_description(out[b + 1], rules[i])
                        /\ carries_description(out[b + 2], rules[i])

\* C2: the output is the two chain commands followed by the commands of each rule in
\* declaration order: the commands of rule i sit at positions cmds_before(i)+1.. and so
\* all of them come before every command of a later rule j.
C2_DeclarationOrderPreserved ==
    IptablesDone =>
        LET rules == cin.profile.firewall_rules
            out == cout.value
            first(i) == cmds_before(rules, i) + 1
            lastc(i) == cmds_before(rules, i + 1)
        IN  /\ Len(out) = cmds_before(rules, Len(rules) + 1)
            /\ \A i \in 1..Len(rules) :
                 /\ out[first(i)] = rule_cmd(cin.profile, rules[i], cin.vm_interface)
                 /\ rules[i].direction = "Both" =>
                        /\ lastc(i) = first(i) + 1
                        /\ out[lastc(i)] = rule_cmd_out(cin.profile, rules[i], cin.vm_interface)
                 /\ rules[i].direction # "Both" => lastc(i) = first(i)
            /\ \A i, j \in 1..Len(rules) : i < j => lastc(i) < first(j)

C2_Witness ==
    /\ IptablesDone
    /\ Len(cin.profile.firewall_rules) = 2
    /\ cin.profile.firewall_rules[1].direction = "Both"
    /\ cin.profile.firewall_rules[2].direction = "Both"
    /\ cin.profile.firewall_rules[1] # cin.profile.firewall_rules[2]
    /\ Len(cout.value) = 6

DefaultSetForTest ==
    /\ cin.profile.name = "test"
    /\ cin.profile.firewall_rules = default_firewall_rules
    /\ cin.vm_interface = "tap0"

\* C3: the default firewall set of profile "test" on tap0 compiles to five commands: the
\* flush of chain n01d-test, its creation, then the rules for ports 443, 80 and 53.
C3_DefaultSetFiveCommands ==
    (IptablesDone /\ DefaultSetForTest) =>
        LET out == cout.value
        IN  /\ Len(out) = 5
            /\ starts_with(out[1], "iptables -F ") /\ contains(out[1], "test")
            /\ starts_with(out[2], "iptables -N ") /\ contains(out[2], "test")
            /\ \A k \in 3..5 : starts_with(out[k], "iptables -A ")
            /\ contains(out[3], " --dport 443 ")
            /\ contains(out[4], " --dport 80 ")
            /\ contains(out[5], " --dport 53 ")

C3_Witness ==
    /\ IptablesDone
    /\ DefaultSetForTest
    /\ cout.value[1] = "iptables -F n01d-test"

(***************************************************************************)
(* Properties of the launch-argument compiler (checked under SpecCompile)  *)
(***************************************************************************)
isolation == cin.profile.network_isolation

\* C4: with mode Full the arguments hold the pair "-nic" "none", no token starts with
\* "virtio-net-pci" and no token carries a mac= part, MAC address set or not.
C4_FullHasNoNetworkDevice ==
    (QemuDone /\ isolation.mode = "Full") =>
        LET args == cout.value
        IN  /\ \E i \in 1..(Len(args) - 1) : args[i] = "-nic" /\ args[i + 1] = "none"
            /\ \A i \in 1..Len(args) :
                 /\ ~starts_with(args[i], "virtio-net-pci")
                 /\ ~contains(args[i], "mac=")

C4_Witness ==
    /\ QemuDone
    /\ isolation.mode = "Full"
    /\ is_some(isolation.mac_address)
    /\ ~cin.profile.sandbox_enabled
    /\ cout.value = <<"-nic", "none">>

\* C5: with mode HostOnly and a MAC address set, exactly one token ends with
\* "mac=<address>" and that token starts with "virtio-net-pci".
C5_HostOnlyMacOnDeviceToken ==
    (QemuDone /\ isolation.mode = "HostOnly" /\ is_some(isolation.mac_address)) =>
        LET args == cout.value
            suffix == "mac=" \o unwrap(isolation.mac_address)
            patched == { i \in 1..Len(args) : ends_with(args[i], suffix) }
        IN  /\ Cardinality(patched) = 1
            /\ \A i \in patched : starts_with(args[i], "virtio-net-pci")

C5_Witness ==
    /\ QemuDone
    /\ isolation.mode = "HostOnly"
    /\ isolation.mac_address = Some("52:54:00:00:00:02")
    /\ cin.profile.sandbox_enabled
    /\ cout.value[6] = "virtio-net-pci,netdev=hostonly,mac=52:54:00:00:00:02"

\* the tokens describing the emitted network device: the values of -netdev and -device
device_token(args, i) == i > 1 /\ args[i - 1] \in { "-netdev", "-device" }

\* C6 as stated: for TorOnly without host access and SOCKS port 9050, a network-device
\* token holds a guest-forward clause with the literal address "127.0.0.1:9050".
C6_GuestForwardLiteralAddress ==
    (/\ QemuDone
     /\ isolation.mode = "TorOnly"
     /\ ~isolation.allow_host_access
     /\ manager.tor_config.socks_port = 9050) =>
        \E i \in 1..Len(cout.value) :
            /\ device_token(cout.value, i)
            /\ contains(cout.value[i], "guestfwd=")
            /\ contains(cout.value[i], "127.0.0.1:9050")

\* C6 amended: for TorOnly the value of -netdev (and no other token) holds a guest-forward
\* clause; its command is "nc 127.0.0.1 <socks_port>", host and port as two words, the
\* port being the manager's configured socks_port (9050).
C6_GuestForwardToSocksPort ==
    (QemuDone /\ isolation.mode = "TorOnly") =>
        LET args == cout.value
            fwd == { i \in 1..Len(args) : contains(args[i], "guestfwd=") }
        IN  /\ Cardinality(fwd) = 1
            /\ \A i \in fwd :
                 /\ i > 1 /\ args[i - 1] = "-netdev"
                 /\ ends_with(args[i], "-cmd:nc 127.0.0.1 "
                                        \o ToString(manager.tor_config.socks_port))
                 /\ ends_with(args[i], " 127.0.0.1 9050")
                 /\ ~contains(args[i], "127.0.0.1:")

C6_Witness ==
    /\ QemuDone
    /\ isolation.mode = "TorOnly"
    /\ ~isolation.allow_host_access
    /\ manager.tor_config.socks_port = 9050
    /\ contains(cout.value[Len(cout.value) - 2], "guestfwd=tcp:10.0.2.100:9050-cmd:nc")

(***************************************************************************)
(* Properties of the persisted catalogs                                    *)
(***************************************************************************)
\* the catalog a later load of config.json returns when the read itself succeeds
catalog(file) == load_config(file, TRUE).security_profiles

is_not_found(result) == ~is_ok(result) /\ contains(result[2], "not found")

\* C7: after a successful save of profile p, loading by p.name returns a profile equal to p.
C7_SaveThenLoadByName ==
    (last.cmd = "create_security_profile" /\ is_ok(last.result)) =>
        get(catalog(configFile), unwrap(last.profile).name) = last.profile

\* C8: deleting a name absent from the store returns NotFound and leaves the file as it
\* was; deleting a present name, when it returns Ok, removes exactly that entry.
C8_DeleteAbsentIsNotFound ==
    last.cmd = "delete_security_profile" =>
        IF last.name \in DOMAIN catalog(last.before)
        THEN is_ok(last.result) =>
                catalog(configFile) = remove(catalog(last.before), last.name)
        ELSE is_not_found(last.result) /\ configFile = last.before

\* C9: after a save that returned an error, config.json still yields every profile it
\* yielded before the command, with the same content.
C9_FailedSaveKeepsCatalog ==
    (/\ last.cmd \in { "create_security_profile", "delete_security_profile", "save_settings" }
     /\ ~is_ok(last.result)) =>
        \A k \in DOMAIN catalog(last.before) :
            get(catalog(configFile), k) = Some(catalog(last.before)[k])

\* a load that cannot use the file: it is missing, unparsable, or the read failed
unusable(file, read_ok) == file \in { Missing, Partial } \/ ~read_ok

\* C10: loading a catalog from a missing, unreadable or unparsable file gives the empty
\* catalog, for load_config as for SecurityManager::new.
C10_LoadFallsBackToEmpty ==
    (/\ last.cmd \in { "get_custom_security_profiles", "new" }
     /\ unusable(last.before, last.read_ok)) =>
        /\ last.result = EmptyMap
        /\ Cardinality(DOMAIN last.result) = 0

C10_Witness ==
    /\ last.cmd = "get_custom_security_profiles"
    /\ last.before = Partial
    /\ last.read_ok
    /\ last.result = EmptyMap
    /\ profilesFile = Partial
    /\ manager.profiles = EmptyMap

(***************************************************************************)
(* Properties of the secure launch (checked under SpecLaunch)              *)
(***************************************************************************)
preset_names == { get_preset_profiles[i][1] : i \in 1..Len(get_preset_profiles) }

\* the launch got past the lookup of the virtual machine, so it resolved the profile name
resolving ==
    /\ last.cmd = "run_vm_secure"
    /\ last.name.vm \in DOMAIN load_config(last.before, last.read_ok).vms

profile_not_found(name) == Err("Security profile '" \o name \o "' not found")

\* C11: a secure launch of an existing virtual machine ends with the profile-not-found
\* error exactly when the profile name is neither a key of the persisted store nor a
\* preset name; a stored name resolves to its stored profile and a preset name that is
\* not stored resolves to the preset
C11_NotFoundIffAbsentFromStoreAndPresets ==
    resolving =>
        LET name == last.name.profile
            store == catalog(last.before)
        IN  /\ last.result = profile_not_found(name)
                <=> (name \notin DOMAIN store /\ name \notin preset_names)
            /\ name \in DOMAIN store => last.profile = Some(store[name])
            /\ (name \notin DOMAIN store /\ name \in preset_names)
                => /\ is_some(last.profile)
                   /\ unwrap(last.profile) \in PresetProfiles
                   /\ unwrap(last.profile).name = name

\* a launch resolved a preset that is not stored while another profile is stored
C11_Witness ==
    /\ resolving
    /\ last.name.profile = "isolated"
    /\ DOMAIN catalog(last.before) = { "test" }
    /\ last.profile = Some(isolated_profile)
    /\ is_ok(last.result)

\* C12: a launch that names a stored profile while config.json cannot be read ends with
\* an error that is not a "not found" error
C12_UnreadableStoreIsNotNotFound ==
    ( /\ last.cmd = "run_vm_secure"
      /\ last.name.vm \in DOMAIN load_config(last.before, TRUE).vms
      /\ last.name.profile \in DOMAIN catalog(last.before)
      /\ ~last.read_ok )
        => ~is_ok(last.result) /\ ~contains(last.result[2], "not found")

\* C14: every call of the preset catalog returns the same four entries, named paranoid,
\* stealth, isolated and pentesting in this order, one entry per name, and the name of
\* each entry is the name of the profile it carries
C14_PresetCatalogOneEntryPerName ==
    last.cmd = "get_security_profiles" =>
        /\ [i \in 1..Len(last.result) |-> last.result[i][1]]
              = << "paranoid", "stealth", "isolated", "pentesting" >>
        /\ \A i \in 1..Len(last.result) : last.result[i][3].name = last.result[i][1]
        /\ \A i, j \in 1..Len(last.result) :
              last.result[i][1] = last.result[j][1] => i = j

\* the catalog was listed after a profile named like a preset had been stored
C14_Witness ==
    /\ last.cmd = "get_security_profiles"
    /\ "paranoid" \in DOMAIN catalog(configFile)
    /\ Len(last.result) = 4

(***************************************************************************)
(* Properties of both stores (checked under SpecStore)                     *)
(***************************************************************************)
\* a command of main.rs that reported success left its change in config.json
config_persisted ==
    /\ configFile \notin { Missing, Partial }
    /\ last.cmd = "create_security_profile"
          => get(catalog(configFile), last.name) = last.profile
    /\ last.cmd = "delete_security_profile" => last.name \notin DOMAIN catalog(configFile)

\* C16: a store operation reports success only if the catalog it changed was written:
\* create_security_profile, delete_security_profile and save_settings return Ok only with
\* their change in config.json, and create_profile, which always returns the profile,
\* leaves the manager's catalog in security_profiles.json
C16_FailedPersistSurfacesError ==
    /\ ( /\ last.cmd \in { "create_security_profile", "delete_security_profile",
                           "save_settings" }
         /\ is_ok(last.result) ) => config_persisted
    /\ last.cmd = "create_profile"
          => profilesFile = Written(profiles_to_json(manager.profiles))

(***************************************************************************)
(* Properties of the compilers, second part (checked under SpecCompile)    *)
(***************************************************************************)
\* the number of places at which `part` occurs in `s`
occurrences(s, part) ==
    Cardinality({ i \in 1..Len(s) :
                    /\ i + Len(part) - 1 <= Len(s)
                    /\ SubSeq(s, i, i + Len(part) - 1) = part })

\* C13: a rule that sets both port and port_range is never compiled, so no compiled
\* firewall command carries more than one --dport qualifier
C13_AtMostOnePortQualifier ==
    IptablesDone =>
        \A i \in 1..Len(cout.value) : occurrences(cout.value[i], "--dport") <= 1

\* the input is the preset of this name, taken from the catalog
compiling_preset(name) == Some(cin.profile) = find_preset(name)

\* C17: the paranoid preset has TorOnly isolation, no host access, internet access, and an
\* ICMP deny rule declared before the allow rule for the SOCKS port; its firewall output
\* has the ICMP REJECT command before the ACCEPT command for the SOCKS port
C17_ParanoidIcmpRejectBeforeSocksAccept ==
    compiling_preset("paranoid") =>
        LET rules == cin.profile.firewall_rules
            socks == ToString(TorConfig_default.socks_port)
        IN  /\ isolation.mode = "TorOnly"
            /\ ~isolation.allow_host_access
            /\ isolation.allow_internet
            /\ \E i, j \in 1..Len(rules) :
                  /\ i < j
                  /\ rules[i].action = "Deny" /\ rules[i].protocol = Some("icmp")
                  /\ rules[j].action = "Allow" /\ rules[j].port = Some(TorConfig_default.socks_port)
            /\ IptablesDone =>
                  \E a, b \in 1..Len(cout.value) :
                      /\ a < b
                      /\ contains(cout.value[a], " -p icmp ")
                      /\ contains(cout.value[a], " -j REJECT ")
                      /\ contains(cout.value[b], " --dport " \o socks \o " ")
                      /\ contains(cout.value[b], " -j ACCEPT ")
                      /\ \A c \in 1..Len(cout.value) :
                            contains(cout.value[c], " --dport " \o socks \o " ") => a < c

\* the firewall rules of the paranoid preset were compiled
C17_Witness ==
    /\ compiling_preset("paranoid")
    /\ IptablesDone
    /\ Len(cout.value) = 4

\* C18: the isolated preset has Full isolation, no internet access, exactly one rule (Deny,
\* Both, no qualifier) and no virtual device; its launch tokens name no network device and
\* its firewall output rejects inbound and outbound traffic on the interface
C18_IsolatedRejectsBothDirections ==
    compiling_preset("isolated") =>
        LET rules == cin.profile.firewall_rules
        IN  /\ isolation.mode = "Full"
            /\ ~isolation.allow_internet
            /\ Len(rules) = 1
            /\ rules[1].action = "Deny" /\ rules[1].direction = "Both"
            /\ rules[1].protocol = None /\ rules[1].source = None
            /\ rules[1].destination = None /\ rules[1].port = None
            /\ rules[1].port_range = None
            /\ cin.profile.virtual_devices = <<>>
            /\ QemuDone =>
                  \A i \in 1..Len(cout.value) :
                      /\ cout.value[i] \notin { "-netdev", "-device" }
                      /\ ~starts_with(cout.value[i], "virtio-net-pci")
            /\ IptablesDone =>
                  /\ \E i \in 1..Len(cout.value) :
                        /\ contains(cout.value[i], " -i " \o cin.vm_interface \o " ")
                        /\ contains(cout.value[i], " -j REJECT")
                  /\ \E i \in 1..Len(cout.value) :
                        /\ contains(cout.value[i], " -o " \o cin.vm_interface \o " ")
                        /\ contains(cout.value[i], " -j REJECT")

\* the firewall rules of the isolated preset were compiled for the bridge interface
C18_Witness ==
    /\ compiling_preset("isolated")
    /\ IptablesDone
    /\ cin.vm_interface = "br0"
    /\ Len(cout.value) = 4

\* the launch tokens of the same profile without its MAC address
args_without_mac ==
    generate_qemu_security_args(
        manager, [cin.profile EXCEPT !.network_isolation.mac_address = None])

\* C19: with a MAC address set, the launch tokens differ from those of the same profile
\* without the address in at most one token: the first token starting with
\* virtio-net-pci gains the suffix ,mac=<address>; count, order and every other token are
\* unchanged, and for None, Filtered and Full the two outputs are identical
C19_MacPatchesFirstDeviceTokenOnly ==
    (QemuDone /\ is_some(isolation.mac_address)) =>
        LET base == args_without_mac
            mac == unwrap(isolation.mac_address)
            devices == { i \in 1..Len(base) : starts_with(base[i], "virtio-net-pci") }
        IN  /\ Len(cout.value) = Len(base)
            /\ \A i \in 1..Len(base) :
                  cout.value[i] = IF i \in devices /\ \A j \in devices : i <= j
                                  THEN base[i] \o ",mac=" \o mac
                                  ELSE base[i]
            /\ Cardinality({ i \in 1..Len(base) : cout.value[i] # base[i] }) <= 1
            /\ isolation.mode \in { "None", "Filtered", "Full" } => cout.value = base

\* the launch tokens of the stealth preset: the device token carries the preset's address
C19_Witness ==
    /\ QemuDone
    /\ compiling_preset("stealth")
    /\ cout.value = << "-sandbox", "on", "-netdev", "user,id=vpnnet,restrict=off",
                       "-device", "virtio-net-pci,netdev=vpnnet,mac=52:54:00:00:00:02" >>

\* the pair ("-sandbox", "on") sits at positions i and i + 1
sandbox_pair_at(args, i) == args[i] = "-sandbox" /\ args[i + 1] = "on"

\* C20: the launch tokens hold the pair ("-sandbox", "on") exactly when sandbox_enabled is
\* true, and then as their first two tokens; for None and Filtered the output is exactly
\* that pair or empty
C20_SandboxPairFirstIffEnabled ==
    QemuDone =>
        /\ (\E i \in 1..(Len(cout.value) - 1) : sandbox_pair_at(cout.value, i))
              <=> cin.profile.sandbox_enabled
        /\ cin.profile.sandbox_enabled
              => Len(cout.value) >= 2 /\ sandbox_pair_at(cout.value, 1)
        /\ isolation.mode \in { "None", "Filtered" }
              => cout.value = IF cin.profile.sandbox_enabled
                              THEN << "-sandbox", "on" >> ELSE << >>

\* a sandboxed profile in TorOnly mode: the pair comes before the network tokens
C20_Witness ==
    /\ QemuDone
    /\ cin.profile.sandbox_enabled
    /\ isolation.mode = "TorOnly"
    /\ Len(cout.value) = 6
    /\ sandbox_pair_at(cout.value, 1)

C21_InternalTokensShareNetworkId ==
    (QemuDone /\ isolation.mode = "Internal") =>
        LET id == unwrap_or(isolation.isolated_network_id, "internal")
            k == IF cin.profile.sandbox_enabled THEN 2 ELSE 0
            mac == IF is_some(isolation.mac_address)
                   THEN ",mac=" \o unwrap(isolation.mac_address) ELSE ""
        IN  /\ Len(cout.value) = k + 4
            /\ cout.value[k + 1] = "-netdev"
            /\ cout.value[k + 2] = "socket,id=" \o id \o ",mcast=230.0.0.1:1234"
            /\ cout.value[k + 3] = "-device"
            /\ cout.value[k + 4] = "virtio-net-pci,netdev=" \o id \o mac

\* an Internal profile whose identifier holds a space, a comma and an equals sign
C21_Witness ==
    /\ QemuDone
    /\ isolation.mode = "Internal"
    /\ isolation.isolated_network_id = Some("net 0,x=1")
    /\ "virtio-net-pci,netdev=net 0,x=1" \in { cout.value[i] : i \in 1..Len(cout.value) }

\* the terminal verb the specification fixes for an action
verb_of(action) ==
    CASE action = "Allow" -> "ACCEPT"
      [] action = "Deny" -> "REJECT"
      [] action = "Drop" -> "DROP"
      [] action = "Log" -> "LOG"

\* `cmd` appends to the profile's chain with this direction flag on the given interface
qualifies(cmd, flag) ==
    starts_with(cmd, "iptables -A n01d-" \o cin.profile.name \o " " \o flag \o " "
                     \o cin.vm_interface)

\* `cmd` jumps to this verb: the clause ends the command or is followed by the comment
jumps_to(cmd, verb) ==
    \/ ends_with(cmd, " -j " \o verb)
    \/ contains(cmd, " -j " \o verb \o " -m comment ")

\* C22: every command compiled for a rule, both commands of a Both rule included, jumps
\* to the verb of the rule's action (Allow ACCEPT, Deny REJECT, Drop DROP, Log LOG); the
\* command of an Inbound rule carries -i <interface>, that of an Outbound rule
\* -o <interface>, and those of a Both rule -i and then -o
C22_VerbAndDirectionPerRule ==
    IptablesDone =>
        LET rules == cin.profile.firewall_rules
            first(i) == cmds_before(rules, i) + 1
            lastc(i) == cmds_before(rules, i + 1)
        IN  /\ Len(cout.value) = cmds_before(rules, Len(rules) + 1)
            /\ \A i \in 1..Len(rules) :
                 /\ \A c \in first(i)..lastc(i) :
                        jumps_to(cout.value[c], verb_of(rules[i].action))
                 /\ rules[i].direction = "Inbound" => qualifies(cout.value[first(i)], "-i")
                 /\ rules[i].direction = "Outbound" => qualifies(cout.value[first(i)], "-o")
                 /\ rules[i].direction = "Both" =>
                        /\ qualifies(cout.value[first(i)], "-i")
                        /\ qualifies(cout.value[lastc(i)], "-o")

\* a Deny rule for both directions followed by an outbound Allow rule was compiled
C22_Witness ==
    /\ IptablesDone
    /\ Len(cin.profile.firewall_rules) = 2
    /\ cin.profile.firewall_rules[1].action = "Deny"
    /\ cin.profile.firewall_rules[1].direction = "Both"
    /\ cin.profile.firewall_rules[2].action = "Allow"
    /\ cin.profile.firewall_rules[2].direction = "Outbound"
    /\ Len(cout.value) = 5

\* the text of `cmd` between its interface and its jump clause: the qualifier clauses
qualifier_clauses(cmd, flag) ==
    LET head == "iptables -A n01d-" \o cin.profile.name \o " " \o flag \o " "
                    \o cin.vm_interface
        jumps == { p \in 1..Len(cmd) : p + 3 <= Len(cmd) /\ SubSeq(cmd, p, p + 3) = " -j " }
        jump == CHOOSE p \in jumps : \A q \in jumps : p <= q
    IN  SubSeq(cmd, Len(head) + 1, jump - 1)

\* C29: the two commands compiled for a Both rule append to the same chain on the same
\* interface, jump to the same verb and carry the same qualifier clauses (protocol,
\* source, destination, port or port range); only the direction flag differs
C29_BothTwinKeepsQualifiers ==
    IptablesDone =>
        LET rules == cin.profile.firewall_rules
            first(i) == cmds_before(rules, i) + 1
        IN  \A i \in 1..Len(rules) :
                rules[i].direction = "Both" =>
                    /\ qualifies(cout.value[first(i)], "-i")
                    /\ qualifies(cout.value[first(i) + 1], "-o")
                    /\ jumps_to(cout.value[first(i)], verb_of(rules[i].action))
                    /\ jumps_to(cout.value[first(i) + 1], verb_of(rules[i].action))
                    /\ qualifier_clauses(cout.value[first(i) + 1], "-o")
                          = qualifier_clauses(cout.value[first(i)], "-i")

(***************************************************************************)
(* Properties of the text compilers (checked under SpecConfig)             *)
(***************************************************************************)
TorrcDone == cout.fn = "generate_torrc"
WireguardDone == cout.fn = "generate_wireguard_config"

\* the text holds a line that starts with `start`
has_line(text, start) == contains("\n" \o text, "\n" \o start)

C24_WireguardFromServerAndPort ==
    WireguardDone =>
        /\ cout.value
              = "[Interface]\nPrivateKey = <YOUR_PRIVATE_KEY>\nAddress = 10.0.0.2/24\n"
                \o "DNS = 1.1.1.1\n\n[Peer]\nPublicKey = <SERVER_PUBLIC_KEY>\nEndpoint = "
                \o (IF is_some(cin.vpn.server) THEN unwrap(cin.vpn.server)
                    ELSE "vpn.example.com")
                \o ":" \o ToString(cin.vpn.port)
                \o "\nAllowedIPs = 0.0.0.0/0\nPersistentKeepalive = 25\n"
        /\ \A v \in VpnConfigs :
              (v.server = cin.vpn.server /\ v.port = cin.vpn.port)
                  => generate_wireguard_config(v) = cout.value

\* a configuration for a tunnel without server, with kill switch, over TCP with a user name
C24_Witness ==
    /\ WireguardDone
    /\ cin.vpn.server = None
    /\ cin.vpn.kill_switch
    /\ cin.vpn.protocol = "TCP"
    /\ is_some(cin.vpn.username)
    /\ has_line(cout.value, "Endpoint = vpn.example.com:443\n")

(***************************************************************************)
(* Properties of the store, second part                                    *)
(***************************************************************************)
\* what config.json holds, as a successful load returns it
persisted(file) == load_config(file, TRUE)

\* C25 (checked under SpecLaunch): a successful create_security_profile changes
\* config.json in the entry of its name only, which becomes the profile given, and a
\* successful delete_security_profile removes the entry of its name only: every other
\* profile, the VM table and the settings are as they were before the command
C25_SaveAndDeleteTouchOneEntry ==
    /\ (last.cmd = "create_security_profile" /\ is_ok(last.result)) =>
          persisted(configFile)
              = [persisted(last.before) EXCEPT
                    !.security_profiles = insert(@, last.name, unwrap(last.profile))]
    /\ (last.cmd = "delete_security_profile" /\ is_ok(last.result)) =>
          persisted(configFile)
              = [persisted(last.before) EXCEPT !.security_profiles = remove(@, last.name)]

\* C27 (checked under Spec): a successful create_security_profile or save_settings leaves
\* in config.json every profile the file held before the command, also when the load at
\* the start of the command could not read the file
C27_SaveKeepsPersistedProfiles ==
    (/\ last.cmd \in { "create_security_profile", "save_settings" }
     /\ is_ok(last.result)) =>
        \A k \in DOMAIN catalog(last.before) :
            k \in DOMAIN catalog(configFile)

\* C28 (checked under SpecLaunch): a secure launch that names a preset runs with the
\* preset of the catalog, whatever the store holds under that name
C28_PresetNameResolvesToPreset ==
    (resolving /\ last.name.profile \in preset_names) =>
        last.profile = find_preset(last.name.profile)

\* C30 (checked under SpecStore): every key of config.json's catalog and of the
\* manager's catalog is the name of the profile stored under it
C30_KeyIsProfileName ==
    /\ \A k \in DOMAIN catalog(configFile) : catalog(configFile)[k].name = k
    /\ \A k \in DOMAIN manager.profiles : manager.profiles[k].name = k

(***************************************************************************)
(* Properties of concurrent commands (checked under SpecConcurrent)        *)
(***************************************************************************)
\* config.json holds what the command of instance i reported as done
update_present(i) ==
    LET c == inflight[i]
    IN  CASE c.cmd = "create_security_profile" -> c.name \in DOMAIN catalog(configFile)
          [] c.cmd = "create_vm" -> c.name \in DOMAIN persisted(configFile).vms
          [] c.cmd = "save_settings" ->
                 /\ persisted(configFile).default_ram = unwrap(c.arg)[1]
                 /\ persisted(configFile).default_cpus = unwrap(c.arg)[2]

\* the commands of the two instances change different parts of config.json
independent(i, j) ==
    inflight[i].cmd # inflight[j].cmd \/ inflight[i].name # inflight[j].name

\* C26: once two commands that change different parts of config.json have both returned
\* Ok, whatever the interleaving of their loads and saves, config.json holds both changes
C26_NoLostUpdate ==
    \A i, j \in Instances :
        ( /\ i # j
          /\ inflight[i].stage = "done" /\ is_ok(inflight[i].result)
          /\ inflight[j].stage = "done" /\ is_ok(inflight[j].result)
          /\ independent(i, j) )
            => update_present(i) /\ update_present(j)

====
